---- MODULE Spec2Model ----
(***************************************************************************)
(* Model of src/layout/LayoutEngine.js: the LayoutEngine class of fontkit. *)
(* Strings are sequences of UTF-16 code units (1-based here, 0-based in    *)
(* the source: charCodeAt(s, i) is s[i + 1]).  The collaborators that are  *)
(* imported by LayoutEngine.js (GlyphRun, GlyphPosition, GlyphInfo, the    *)
(* two layout engines, UnicodeLayoutEngine, KernProcessor, the font) are   *)
(* modelled by their contract only.                                        *)
(***************************************************************************)
EXTENDS Integers, Sequences, FiniteSets, TLC

VARIABLES font, engine, unicodeLayoutEngine, kernProcessor, constructed,
          pc, string, features, glyphRun, positioned, log, openSetups,
          lastOp, reported, result, block

vars == <<font, engine, unicodeLayoutEngine, kernProcessor, constructed,
          pc, string, features, glyphRun, positioned, log, openSetups,
          lastOp, reported, result, block>>

(***************************************************************************)
(* Bounds of the model.                                                    *)
(***************************************************************************)
\* longest string handed to glyphsForString in SpecGlyphs
MaxLen == 3
\* longest string handed to layout in Spec
MaxLayoutLen == 1

(***************************************************************************)
(* Input alphabets (UTF-16 code units).                                    *)
(*   65     U+0041  ordinary letter                                        *)
(*   173    U+00AD  soft hyphen (default-ignorable, not a selector)        *)
(*   65039  U+FE0F  variation selector 16                                  *)
(*   55357  0xD83D  high surrogate, 56832 0xDE00 low surrogate             *)
(*                  (together U+1F600, an ordinary codepoint)              *)
(*   56128  0xDB40  high surrogate, 56576 0xDD00 low surrogate             *)
(*                  (together U+E0100, variation selector 17)              *)
(***************************************************************************)
CodeUnits == {65, 173, 65039, 55357, 56832, 56128, 56576}

LayoutCodeUnits == {65, 173, 65039}

StringsUpTo(units, n) == UNION {[1..k -> units] : k \in 0..n}

\* string.charCodeAt(i), i counted from 0
charCodeAt(s, i) == s[i + 1]

(***************************************************************************)
(* The font's codepoint map (font._cmapProcessor) and glyph table.  Glyph  *)
(* id 0 is the undefined glyph.  The two-argument lookup resolves a base   *)
(* plus a variation selector to a variant glyph.                           *)
(***************************************************************************)
lookup(codePoint) ==
    CASE codePoint = 65     -> 1
      [] codePoint = 173    -> 2
      [] codePoint = 32     -> 3
      [] codePoint = 160    -> 3
      [] codePoint = 128512 -> 4
      [] OTHER              -> 0

lookupVS(codePoint, selector) == 10 + lookup(codePoint)

\* new GlyphInfo(font, id, codePoints, stringIndex)
GlyphInfo(id, codePoints, stringIndex) ==
    [id |-> id, codePoints |-> codePoints, stringIndex |-> stringIndex]

(***************************************************************************)
(* glyphsForString (lines 81-123).                                         *)
(***************************************************************************)
\* line 96: the code unit is a high surrogate
IsHighSurrogate(code) == 55296 <= code /\ code <= 56319

\* line 98: the code unit is a low surrogate
IsLowSurrogate(next) == 56320 <= next /\ next <= 57343

CombineSurrogatesNoPlaneOffset(code, next) == ((code % 1024) * 1024) + (next % 1024)

\* line 100: ((code & 0x3ff) << 10) + (next & 0x3ff) + 0x10000
CombineSurrogates(code, next) == ((code % 1024) * 1024) + (next % 1024) + 65536

\* lines 95-102: the codepoint decoded at idx and the index after it
DecodeAt(s, idx) ==
    LET code == charCodeAt(s, idx)
        idx1 == idx + 1
    IN  IF IsHighSurrogate(code) /\ idx1 < Len(s)
           /\ IsLowSurrogate(charCodeAt(s, idx1))
        THEN [code |-> CombineSurrogates(code, charCodeAt(s, idx1)), idx |-> idx1 + 1]
        ELSE [code |-> code, idx |-> idx1]

NextStateBmpOnly(code) == IF 65024 <= code /\ code <= 65039 THEN 1 ELSE 0

\* line 105: 1 if the codepoint is a variation selector, 0 otherwise
NextState(code) ==
    IF (65024 <= code /\ code <= 65039) \/ (917760 <= code /\ code <= 917999)
    THEN 1 ELSE 0

WhileCondNoFlush(idx, len) == idx < len

\* line 88: the loop runs one iteration past the end of the string
WhileCond(idx, len) == idx <= len

\* line 91: the offset recorded for a unit emitted in the iteration at idx
StringIndexAt(idx) == idx - 1

EmitAnyPending(glyphs, state, nextState, last, code, stringIndex) ==
    IF state >= 0 /\ nextState = 1
    THEN Append(glyphs, GlyphInfo(lookupVS(last, code), <<last, code>>, stringIndex))
    ELSE IF state >= 0 /\ nextState = 0
    THEN Append(glyphs, GlyphInfo(lookup(last), <<last>>, stringIndex))
    ELSE glyphs

\* lines 110-116: the glyphs after the emission step of one iteration
Emit(glyphs, state, nextState, last, code, stringIndex) ==
    IF state = 0 /\ nextState = 1
    THEN Append(glyphs, GlyphInfo(lookupVS(last, code), <<last, code>>, stringIndex))
    ELSE IF state = 0 /\ nextState = 0
    THEN Append(glyphs, GlyphInfo(lookup(last), <<last>>, stringIndex))
    ELSE glyphs

RECURSIVE GlyphsLoop(_, _, _, _, _)
\* lines 88-120: the while loop, from the loop state (idx, last, state, glyphs)
GlyphsLoop(s, idx, last, state, glyphs) ==
    IF ~WhileCond(idx, Len(s))
    THEN glyphs
    ELSE LET stringIndex == StringIndexAt(idx)
             d == IF idx < Len(s)
                  THEN DecodeAt(s, idx)
                  ELSE [code |-> 0, idx |-> idx + 1]
             nextState == IF idx < Len(s) THEN NextState(d.code) ELSE 0
         IN  GlyphsLoop(s, d.idx, d.code, nextState,
                        Emit(glyphs, state, nextState, last, d.code, stringIndex))

glyphsForStringPendingAtStart(s) == GlyphsLoop(s, 0, -1, 0, <<>>)

\* lines 81-123
glyphsForString(s) == GlyphsLoop(s, 0, -1, -1, <<>>)

isDefaultIgnorableDerivedCore(ch) ==
    LET plane == ch \div 65536
        page  == ch \div 256
    IN  IF plane = 0
        THEN CASE page = 0   -> ch = 173
               [] page = 3   -> ch = 847
               [] page = 6   -> ch = 1564
               [] page = 17  -> 4447 <= ch /\ ch <= 4448
               [] page = 23  -> 6068 <= ch /\ ch <= 6069
               [] page = 24  -> 6155 <= ch /\ ch <= 6158
               [] page = 32  -> \/ (8203 <= ch /\ ch <= 8207)
                                \/ (8234 <= ch /\ ch <= 8238)
                                \/ (8288 <= ch /\ ch <= 8303)
               [] page = 49  -> ch = 12644
               [] page = 254 -> (65024 <= ch /\ ch <= 65039) \/ ch = 65279
               [] page = 255 -> ch = 65440 \/ (65520 <= ch /\ ch <= 65528)
               [] OTHER      -> FALSE
        ELSE CASE plane = 1  -> \/ (113824 <= ch /\ ch <= 113827)
                                \/ (119155 <= ch /\ ch <= 119162)
               [] plane = 14 -> 917504 <= ch /\ ch <= 921599
               [] OTHER      -> FALSE

(***************************************************************************)
(* isDefaultIgnorable (lines 173-199): ch >> 16 is ch \div 65536 and       *)
(* ch >> 8 is ch \div 256.                                                 *)
(***************************************************************************)
isDefaultIgnorable(ch) ==
    LET plane == ch \div 65536
        page  == ch \div 256
    IN  IF plane = 0
        THEN CASE page = 0   -> ch = 173
               [] page = 3   -> ch = 847
               [] page = 6   -> ch = 1564
               [] page = 23  -> 6068 <= ch /\ ch <= 6069
               [] page = 24  -> 6155 <= ch /\ ch <= 6158
               [] page = 32  -> \/ (8203 <= ch /\ ch <= 8207)
                                \/ (8234 <= ch /\ ch <= 8238)
                                \/ (8288 <= ch /\ ch <= 8303)
               [] page = 254 -> (65024 <= ch /\ ch <= 65039) \/ ch = 65279
               [] page = 255 -> 65520 <= ch /\ ch <= 65528
               [] OTHER      -> FALSE
        ELSE CASE plane = 1  -> \/ (113824 <= ch /\ ch <= 113827)
                                \/ (119155 <= ch /\ ch <= 119162)
               [] plane = 14 -> 917504 <= ch /\ ch <= 921599
               [] OTHER      -> FALSE

(***************************************************************************)
(* Collaborators of the pipeline.                                          *)
(***************************************************************************)
\* glyph.advanceWidth, the intrinsic metric of a glyph id
advanceWidth(id) == 5 + id

\* font.getGlyph(id): the renderable glyph object
getGlyph(id) == [id |-> id, advanceWidth |-> advanceWidth(id)]

\* new GlyphPosition(xAdvance)
GlyphPosition(xAdvance) ==
    [xAdvance |-> xAdvance, yAdvance |-> 0, xOffset |-> 0, yOffset |-> 0]

\* new GlyphRun(glyphs, features, ...): no positions and no stringIndices yet;
\* assigned names the sequence properties layout has assigned so far
GlyphRun(glyphs, kern) ==
    [glyphs |-> glyphs, positions |-> <<>>, stringIndices |-> <<>>,
     assigned |-> {}, features |-> [kern |-> kern]]

\* the caller's kern feature toggle: not given, enabled, or disabled
KernToggles == {"undefined", "true", "false"}

NoEngine ==
    [kind |-> "none", setup |-> FALSE, substitute |-> FALSE, position |-> FALSE,
     cleanup |-> FALSE, fallbackPosition |-> FALSE, stringsForGlyph |-> FALSE]

\* an AATLayoutEngine or OTLayoutEngine instance: which optional operations
\* it offers and whether it asks for fallback positioning
EngineInstances(kind) ==
    [kind : {kind}, setup : BOOLEAN, substitute : BOOLEAN, position : BOOLEAN,
     cleanup : BOOLEAN, fallbackPosition : BOOLEAN, stringsForGlyph : BOOLEAN]

Fonts == [morx : BOOLEAN, GSUB : BOOLEAN, GPOS : BOOLEAN, kern : BOOLEAN]

SelectEngineRulesFirst(f) ==
    IF f.GSUB \/ f.GPOS
    THEN EngineInstances("OT")
    ELSE IF f.morx
    THEN EngineInstances("AAT")
    ELSE {NoEngine}

\* lines 19-24: the engines the constructor can select for a font
SelectEngine(f) ==
    IF f.morx
    THEN EngineInstances("AAT")
    ELSE IF f.GSUB \/ f.GPOS
    THEN EngineInstances("OT")
    ELSE {NoEngine}

\* the value of `positioned`: null, or the tag set the backend applied
NullPositioned == [truthy |-> FALSE, kern |-> FALSE]

\* engine.position(glyphRun) returns null or the applied tags; kern is among
\* them only when the font has a positioning rule table
PositionResults(f) ==
    {NullPositioned, [truthy |-> TRUE, kern |-> FALSE]}
      \cup (IF f.GPOS THEN {[truthy |-> TRUE, kern |-> TRUE]} ELSE {})

\* engine.position(glyphRun): the backend overwrites the positions in place
EnginePosition(positions, p) ==
    IF p.truthy
    THEN [i \in 1..Len(positions) |->
            [positions[i] EXCEPT !.xOffset = 1,
                                 !.xAdvance = IF p.kern THEN @ - 1 ELSE @]]
    ELSE positions

\* unicodeLayoutEngine.positionGlyphs(glyphs, positions): mark offsets
positionGlyphs(glyphs, positions) ==
    [i \in 1..Len(positions) |-> [positions[i] EXCEPT !.yOffset = 1]]

\* kernProcessor.process(glyphs, positions): pairwise advance adjustment
process(glyphs, positions) ==
    [i \in 1..Len(positions) |->
        IF i < Len(positions)
        THEN [positions[i] EXCEPT !.xAdvance = @ - 2]
        ELSE positions[i]]

RECURSIVE Reverse(_)
Reverse(s) == IF s = <<>> THEN <<>> ELSE Append(Reverse(Tail(s)), Head(s))

\* engine.substitute(glyphRun): the backend may delete, insert (a ligature or
\* decomposition glyph that keeps its origin's codepoints and offset) or
\* reorder glyph units, or leave them alone
SubstituteResults(glyphs) ==
    IF glyphs = <<>>
    THEN {glyphs}
    ELSE LET inserted == Append(glyphs, [Head(glyphs) EXCEPT !.id = 20])
         IN  {glyphs, Tail(glyphs), inserted, Reverse(inserted)}

(***************************************************************************)
(* layout (lines 27-70) and the methods it calls.                          *)
(***************************************************************************)
EarlyReturnNever(glyphs) == FALSE

\* line 45: return early if there are no glyphs
EarlyReturn(glyphs) == Len(glyphs) = 0

\* line 51
HasSetup(e) == e.kind # "none" /\ e.setup

\* line 127
HasSubstitute(e) == e.kind # "none" /\ e.substitute

\* line 138
HasPosition(e) == e.kind # "none" /\ e.position

\* line 62
HasCleanup(e) == e.kind # "none" /\ e.cleanup

InitialPositionsShort(glyphs) ==
    [i \in 1..(Len(glyphs) - 1) |-> GlyphPosition(advanceWidth(glyphs[i].id))]

\* line 134: one initial position per glyph, from its advance width
InitialPositions(glyphs) ==
    [i \in 1..Len(glyphs) |-> GlyphPosition(advanceWidth(glyphs[i].id))]

NeedsConstructionAlways(cached) == TRUE

\* lines 144 and 153: the cached component has not been built yet
NeedsConstruction(cached) == cached = "null"

\* the number of constructions after one more; the count saturates at 2
Built(n) == IF n < 2 THEN n + 1 ELSE n

FallbackGateNoPosition(p, e) == ~p.truthy

\* line 143: the fallback mark positioner runs
FallbackGate(p, e) == ~p.truthy /\ (e.kind = "none" \/ e.fallbackPosition)

KernGateIgnoringBackend(p, runFeatures, f) == runFeatures.kern # "false" /\ f.kern

KernGateUnpositionedOnly(p, runFeatures, f) ==
    ~p.truthy /\ runFeatures.kern # "false" /\ f.kern

KernGateIgnoringToggle(p, runFeatures, f) == (~p.truthy \/ ~p.kern) /\ f.kern

\* line 152: the legacy kern processor runs
KernGate(p, runFeatures, f) ==
    (~p.truthy \/ ~p.kern) /\ runFeatures.kern # "false" /\ f.kern

hideDefaultIgnorablesResetPosition(glyphs, positions) ==
    LET space == getGlyph(lookup(32))
        hidden(i) == isDefaultIgnorable(glyphs[i].codePoints[1])
    IN  [glyphs |-> [i \in 1..Len(glyphs) |->
                       IF hidden(i)
                       THEN [glyphs[i] EXCEPT !.id = space.id]
                       ELSE glyphs[i]],
         positions |-> [i \in 1..Len(positions) |->
                       IF i <= Len(glyphs) /\ hidden(i)
                       THEN GlyphPosition(0)
                       ELSE positions[i]]]

\* lines 162-171
hideDefaultIgnorables(glyphs, positions) ==
    LET space == getGlyph(lookup(32))
        hidden(i) == isDefaultIgnorable(glyphs[i].codePoints[1])
    IN  [glyphs |-> [i \in 1..Len(glyphs) |->
                       IF hidden(i)
                       THEN [glyphs[i] EXCEPT !.id = space.id]
                       ELSE glyphs[i]],
         positions |-> [i \in 1..Len(positions) |->
                       IF i <= Len(glyphs) /\ hidden(i)
                       THEN [positions[i] EXCEPT !.xAdvance = 0, !.yAdvance = 0]
                       ELSE positions[i]]]

\* line 67
StringIndices(glyphs) == [i \in 1..Len(glyphs) |-> glyphs[i].stringIndex]

\* line 68
FinalGlyphs(glyphs) == [i \in 1..Len(glyphs) |-> getGlyph(glyphs[i].id)]

PhaseAfterCleanupFirst(p) ==
    CASE p = "setup"      -> "substitute"
      [] p = "substitute" -> "position"
      [] p = "position"   -> "cleanup"
      [] p = "cleanup"    -> "hide"
      [] p = "hide"       -> "map"
      [] OTHER            -> "idle"

PhaseAfterHideFirst(p) ==
    CASE p = "setup"      -> "substitute"
      [] p = "substitute" -> "hide"
      [] p = "hide"       -> "position"
      [] p = "position"   -> "cleanup"
      [] p = "cleanup"    -> "map"
      [] OTHER            -> "idle"

\* lines 50-69: the statement of layout that follows each phase
PhaseAfter(p) ==
    CASE p = "setup"      -> "substitute"
      [] p = "substitute" -> "position"
      [] p = "position"   -> "hide"
      [] p = "hide"       -> "cleanup"
      [] p = "cleanup"    -> "map"
      [] OTHER            -> "idle"

(***************************************************************************)
(* getAvailableFeatures (lines 201-213).                                   *)
(***************************************************************************)
\* longest feature list the backend reports
MaxFeatures == 2

FeatureTags == {"kern", "liga"}

\* engine.getAvailableFeatures(script, language): an ordered tag sequence
BackendFeatureLists == StringsUpTo(FeatureTags, MaxFeatures)

\* Array.prototype.indexOf, counted from 0; -1 when absent
indexOf(seq, x) ==
    IF \E i \in 1..Len(seq) : seq[i] = x
    THEN (CHOOSE i \in 1..Len(seq) :
            seq[i] = x /\ \A j \in 1..(i - 1) : seq[j] # x) - 1
    ELSE -1

\* lines 201-213, given what the backend reports
getAvailableFeatures(e, f, backendList) ==
    LET features1 == IF e.kind # "none" THEN backendList ELSE <<>>
    IN  IF f.kern /\ indexOf(features1, "kern") = -1
        THEN Append(features1, "kern")
        ELSE features1

(***************************************************************************)
(* stringsForGlyph (lines 215-230).  Strings are sequences of code units.  *)
(***************************************************************************)
\* the codepoints the font's codepoint map knows, in ascending order
CmapCodePoints == <<32, 65, 160, 173, 128512>>

\* font._cmapProcessor.codePointsForGlyph(gid)
codePointsForGlyph(gid) == SelectSeq(CmapCodePoints, LAMBDA c : lookup(c) = gid)

\* String.fromCodePoint(codePoint): the UTF-16 encoding of the codepoint
fromCodePoint(codePoint) ==
    IF codePoint < 65536
    THEN <<codePoint>>
    ELSE <<55296 + ((codePoint - 65536) \div 1024),
           56320 + ((codePoint - 65536) % 1024)>>

\* what engine.stringsForGlyph(gid) can report: "A", the surrogate pair of
\* U+1F600, the ligature origin "fi", possibly more than once
BackendStringLists ==
    {<<>>, <<(<<65>>)>>, <<(<<55357, 56832>>), <<102, 105>>>>,
     <<(<<102, 105>>), <<102, 105>>>>}

SetAddAlways(elements, x) == Append(elements, x)

\* Set.prototype.add: a Set keeps its elements in insertion order
SetAdd(elements, x) ==
    IF \E i \in 1..Len(elements) : elements[i] = x
    THEN elements
    ELSE Append(elements, x)

RECURSIVE AddAll(_, _)
\* lines 219-221 and 224-226: add every string of strs to the set
AddAll(elements, strs) ==
    IF strs = <<>>
    THEN elements
    ELSE AddAll(SetAdd(elements, Head(strs)), Tail(strs))

\* line 223
HasStringsForGlyph(e) == e.kind # "none" /\ e.stringsForGlyph

\* lines 215-230, given what the backend reports for gid
stringsForGlyph(e, gid, backendStrings) ==
    LET codePoints == codePointsForGlyph(gid)
        fromCmap == AddAll(<<>>, [i \in 1..Len(codePoints) |->
                                    fromCodePoint(codePoints[i])])
    IN  IF HasStringsForGlyph(e)
        THEN AddAll(fromCmap, backendStrings)
        ELSE fromCmap

(***************************************************************************)
(* The engine as a state machine.  pc is the statement of layout the       *)
(* engine is at ("idle": no call in progress); log lists, in order, the    *)
(* operations the current or most recent layout call has invoked;          *)
(* openSetups counts the backend setups not yet followed by a cleanup      *)
(* (it saturates at 2); lastOp and result are the public operation that    *)
(* has just returned ("none" once the caller has taken its value) and, for *)
(* the query operations, what it returned; constructed counts the          *)
(* constructions of the two lazily built components.                       *)
(***************************************************************************)
NoRun == GlyphRun(<<>>, "undefined")

\* lines 12-25: the state after construction
Init ==
    /\ font \in Fonts
    /\ engine \in SelectEngine(font)
    /\ unicodeLayoutEngine = "null"
    /\ kernProcessor = "null"
    /\ constructed = [unicodeLayoutEngine |-> 0, kernProcessor |-> 0]
    /\ block = 0
    /\ pc = "idle"
    /\ string = <<>>
    /\ features = "undefined"
    /\ glyphRun = NoRun
    /\ positioned = NullPositioned
    /\ log = <<>>
    /\ openSetups = 0
    /\ lastOp = "none"
    /\ reported = <<>>
    /\ result = <<>>

\* lines 27-48: a call of layout up to the early return
LayoutBegin(s, kern) ==
    /\ pc = "idle"
    /\ lastOp = "none"
    /\ string' = s
    /\ features' = kern
    /\ lastOp' = "layout"
    /\ reported' = <<>>
    /\ result' = <<>>
    /\ log' = <<>>
    /\ positioned' = NullPositioned
    /\ LET glyphs == glyphsForString(s)
           run == GlyphRun(glyphs, kern)
       IN  IF EarlyReturn(glyphs)
           THEN /\ glyphRun' = [run EXCEPT !.positions = <<>>,
                                           !.assigned = {"positions"}]
                /\ pc' = "idle"
           ELSE /\ glyphRun' = run
                /\ pc' = "setup"
    /\ UNCHANGED <<font, engine, unicodeLayoutEngine, kernProcessor, constructed,
                   openSetups, block>>

\* lines 50-53: set up the advanced layout engine
LayoutSetup ==
    /\ pc = "setup"
    /\ IF HasSetup(engine)
       THEN /\ log' = Append(log, "engine.setup")
            /\ openSetups' = IF openSetups < 2 THEN openSetups + 1 ELSE openSetups
       ELSE UNCHANGED <<log, openSetups>>
    /\ pc' = PhaseAfter("setup")
    /\ UNCHANGED <<font, engine, unicodeLayoutEngine, kernProcessor, constructed,
                   block, string, features, glyphRun, positioned, lastOp, reported, result>>

\* lines 56 and 125-130: substitute
LayoutSubstitute ==
    /\ pc = "substitute"
    /\ IF HasSubstitute(engine)
       THEN \E out \in SubstituteResults(glyphRun.glyphs) :
              /\ glyphRun' = [glyphRun EXCEPT !.glyphs = out]
              /\ log' = log \o <<"substitute", "engine.substitute">>
       ELSE /\ log' = Append(log, "substitute")
            /\ UNCHANGED glyphRun
    /\ pc' = PhaseAfter("substitute")
    /\ UNCHANGED <<font, engine, unicodeLayoutEngine, kernProcessor, constructed,
                   block, string, features, positioned, openSetups, lastOp, reported, result>>

\* lines 57 and 132-160: position
LayoutPosition ==
    /\ pc = "position"
    /\ \E p \in (IF HasPosition(engine) THEN PositionResults(font)
                                        ELSE {NullPositioned}) :
         LET pos0 == InitialPositions(glyphRun.glyphs)
             pos1 == IF HasPosition(engine) THEN EnginePosition(pos0, p) ELSE pos0
             fallback == FallbackGate(p, engine)
             pos2 == IF fallback THEN positionGlyphs(glyphRun.glyphs, pos1) ELSE pos1
             kern == KernGate(p, glyphRun.features, font)
             pos3 == IF kern THEN process(glyphRun.glyphs, pos2) ELSE pos2
             newUnicode == fallback /\ NeedsConstruction(unicodeLayoutEngine)
             newKern == kern /\ NeedsConstruction(kernProcessor)
         IN  /\ positioned' = p
             /\ unicodeLayoutEngine' =
                  IF newUnicode THEN "UnicodeLayoutEngine" ELSE unicodeLayoutEngine
             /\ kernProcessor' =
                  IF newKern THEN "KernProcessor" ELSE kernProcessor
             /\ constructed' =
                  [unicodeLayoutEngine |->
                     IF newUnicode THEN Built(constructed.unicodeLayoutEngine)
                                   ELSE constructed.unicodeLayoutEngine,
                   kernProcessor |->
                     IF newKern THEN Built(constructed.kernProcessor)
                                ELSE constructed.kernProcessor]
             /\ glyphRun' =
                  [glyphRun EXCEPT !.positions = pos3,
                                   !.assigned = @ \cup {"positions"},
                                   !.features.kern = IF kern THEN "true" ELSE @]
             /\ log' = log \o <<"position">>
                           \o (IF HasPosition(engine) THEN <<"engine.position">> ELSE <<>>)
                           \o (IF newUnicode THEN <<"new UnicodeLayoutEngine">> ELSE <<>>)
                           \o (IF fallback THEN <<"unicode.positionGlyphs">> ELSE <<>>)
                           \o (IF newKern THEN <<"new KernProcessor">> ELSE <<>>)
                           \o (IF kern THEN <<"kern.process">> ELSE <<>>)
    /\ pc' = PhaseAfter("position")
    /\ UNCHANGED <<font, engine, string, features, openSetups, lastOp, reported,
                   result, block>>

\* line 59: hide the default ignorables
LayoutHide ==
    /\ pc = "hide"
    /\ LET h == hideDefaultIgnorables(glyphRun.glyphs, glyphRun.positions)
       IN  glyphRun' = [glyphRun EXCEPT !.glyphs = h.glyphs,
                                        !.positions = h.positions]
    /\ log' = Append(log, "hide")
    /\ pc' = PhaseAfter("hide")
    /\ UNCHANGED <<font, engine, unicodeLayoutEngine, kernProcessor, constructed,
                   block, string, features, positioned, openSetups, lastOp, reported, result>>

\* lines 61-64: let the layout engine clean up
LayoutCleanup ==
    /\ pc = "cleanup"
    /\ IF HasCleanup(engine)
       THEN /\ log' = Append(log, "engine.cleanup")
            /\ openSetups' = 0
       ELSE UNCHANGED <<log, openSetups>>
    /\ pc' = PhaseAfter("cleanup")
    /\ UNCHANGED <<font, engine, unicodeLayoutEngine, kernProcessor, constructed,
                   block, string, features, glyphRun, positioned, lastOp, reported, result>>

\* lines 66-69: map glyph infos back to glyph objects and return
LayoutMap ==
    /\ pc = "map"
    /\ glyphRun' = [glyphRun EXCEPT
                      !.stringIndices = StringIndices(glyphRun.glyphs),
                      !.glyphs = FinalGlyphs(glyphRun.glyphs),
                      !.assigned = @ \cup {"stringIndices"}]
    /\ log' = Append(log, "map")
    /\ pc' = PhaseAfter("map")
    /\ UNCHANGED <<font, engine, unicodeLayoutEngine, kernProcessor, constructed,
                   block, string, features, positioned, openSetups, lastOp, reported, result>>

\* lines 201-213: a call of getAvailableFeatures
GetAvailableFeatures(backendList) ==
    /\ pc = "idle"
    /\ lastOp = "none"
    /\ lastOp' = "getAvailableFeatures"
    /\ reported' = backendList
    /\ result' = getAvailableFeatures(engine, font, backendList)
    /\ string' = <<>>
    /\ features' = "undefined"
    /\ glyphRun' = NoRun
    /\ positioned' = NullPositioned
    /\ log' = <<>>
    /\ UNCHANGED <<font, engine, unicodeLayoutEngine, kernProcessor, constructed,
                   pc, openSetups, block>>

\* lines 215-230: a call of stringsForGlyph
StringsForGlyph(gid, backendStrings) ==
    /\ pc = "idle"
    /\ lastOp = "none"
    /\ lastOp' = "stringsForGlyph"
    /\ reported' = [gid |-> gid, strings |-> backendStrings]
    /\ result' = stringsForGlyph(engine, gid, backendStrings)
    /\ UNCHANGED <<font, engine, unicodeLayoutEngine, kernProcessor, constructed,
                   pc, string, features, glyphRun, positioned, log, openSetups,
                   block>>

\* lines 47, 69, 212 and 229: the operation has returned; the caller takes
\* the returned value and the engine keeps nothing of the call but its cached
\* components
Release ==
    /\ pc = "idle"
    /\ lastOp # "none"
    /\ lastOp' = "none"
    /\ string' = <<>>
    /\ features' = "undefined"
    /\ glyphRun' = NoRun
    /\ positioned' = NullPositioned
    /\ log' = <<>>
    /\ reported' = <<>>
    /\ result' = <<>>
    /\ UNCHANGED <<font, engine, unicodeLayoutEngine, kernProcessor, constructed,
                   pc, openSetups, block>>

Next ==
    \/ \E s \in StringsUpTo(LayoutCodeUnits, MaxLayoutLen), kern \in KernToggles :
         LayoutBegin(s, kern)
    \/ LayoutSetup
    \/ LayoutSubstitute
    \/ LayoutPosition
    \/ LayoutHide
    \/ LayoutCleanup
    \/ LayoutMap
    \/ \E backendList \in (IF engine.kind # "none" THEN BackendFeatureLists
                                                   ELSE {<<>>}) :
         GetAvailableFeatures(backendList)
    \/ \E gid \in 0..4 :
         \E backendStrings \in (IF HasStringsForGlyph(engine) THEN BackendStringLists
                                                               ELSE {<<>>}) :
           StringsForGlyph(gid, backendStrings)
    \/ Release

Spec == Init /\ [][Next]_vars

(***************************************************************************)
(* glyphsForString as a function of its input: the specification draws a   *)
(* string and applies the function to it.                                  *)
(***************************************************************************)
InitGlyphs ==
    /\ font = [morx |-> FALSE, GSUB |-> FALSE, GPOS |-> FALSE, kern |-> FALSE]
    /\ engine = NoEngine
    /\ unicodeLayoutEngine = "null"
    /\ kernProcessor = "null"
    /\ constructed = [unicodeLayoutEngine |-> 0, kernProcessor |-> 0]
    /\ block = 0
    /\ pc = "glyphsForString"
    /\ string \in StringsUpTo(CodeUnits, MaxLen)
    /\ features = "undefined"
    /\ glyphRun = NoRun
    /\ positioned = NullPositioned
    /\ log = <<>>
    /\ openSetups = 0
    /\ lastOp = "none"
    /\ reported = <<>>
    /\ result = <<>>

ApplyGlyphsForString ==
    /\ pc = "glyphsForString"
    /\ result' = glyphsForString(string)
    /\ lastOp' = "glyphsForString"
    /\ pc' = "idle"
    /\ UNCHANGED <<font, engine, unicodeLayoutEngine, kernProcessor, constructed,
                   block, string, features, glyphRun, positioned, log, openSetups, reported>>

NextGlyphs == ApplyGlyphsForString

SpecGlyphs == InitGlyphs /\ [][NextGlyphs]_vars

(***************************************************************************)
(* isDefaultIgnorable as a function of its input: the specification draws  *)
(* one block of 4096 codepoints out of the 272 blocks of 0..0x10FFFF and   *)
(* applies the function to every codepoint of the block.                   *)
(***************************************************************************)
BlockCodePoints(b) == (b * 4096)..(b * 4096 + 4095)

InitIgnorable ==
    /\ font = [morx |-> FALSE, GSUB |-> FALSE, GPOS |-> FALSE, kern |-> FALSE]
    /\ engine = NoEngine
    /\ unicodeLayoutEngine = "null"
    /\ kernProcessor = "null"
    /\ constructed = [unicodeLayoutEngine |-> 0, kernProcessor |-> 0]
    /\ block \in 0..271
    /\ pc = "isDefaultIgnorable"
    /\ string = <<>>
    /\ features = "undefined"
    /\ glyphRun = NoRun
    /\ positioned = NullPositioned
    /\ log = <<>>
    /\ openSetups = 0
    /\ lastOp = "none"
    /\ reported = <<>>
    /\ result = {}

ApplyIsDefaultIgnorable ==
    /\ pc = "isDefaultIgnorable"
    /\ result' = {ch \in BlockCodePoints(block) : isDefaultIgnorable(ch)}
    /\ lastOp' = "isDefaultIgnorable"
    /\ pc' = "idle"
    /\ UNCHANGED <<font, engine, unicodeLayoutEngine, kernProcessor, constructed,
                   block, string, features, glyphRun, positioned, log, openSetups, reported>>

NextIgnorable == ApplyIsDefaultIgnorable

SpecIgnorable == InitIgnorable /\ [][NextIgnorable]_vars

(***************************************************************************)
(* Properties of glyphsForString, checked under SpecGlyphs.                *)
(***************************************************************************)
\* the codepoints of s from code-unit index i on, each with the index of its
\* first code unit
RECURSIVE CodePointsFrom(_, _)
CodePointsFrom(s, i) ==
    IF i >= Len(s)
    THEN <<>>
    ELSE LET d == DecodeAt(s, i)
         IN  <<[code |-> d.code, at |-> i]>> \o CodePointsFrom(s, d.idx)

CodePoints(s) == CodePointsFrom(s, 0)

IsVariationSelector(c) == c \in 65024..65039 \/ c \in 917760..917999

IsBase(cp) == ~IsVariationSelector(cp.code)

\* the codepoints that are not variation selectors, in text order
Bases(cps) == SelectSeq(cps, IsBase)

GlyphsDone == lastOp = "glyphsForString"

\* C5: every glyph unit produced by glyphsForString records as its offset the
\* index of the first code unit of its base codepoint (the unit for the j-th
\* codepoint that is not a variation selector starts where that codepoint
\* starts), also when the base is a surrogate pair.
C5_OffsetIsClusterStart ==
    GlyphsDone =>
      LET b == Bases(CodePoints(string))
      IN  \A j \in 1..Len(result) :
            j <= Len(b) /\ result[j].stringIndex = b[j].at

\* C6: a base codepoint immediately followed by a variation selector yields
\* exactly one glyph unit, with codepoints <<base, selector>> and the glyph id
\* of the two-argument lookup; neither the base nor the selector gets a unit
\* of its own.
C6_BaseSelectorOneUnit ==
    GlyphsDone =>
      LET cps == CodePoints(string)
      IN  /\ Len(result) = Len(Bases(cps))
          /\ \A j \in 1..Len(result) : ~IsVariationSelector(result[j].codePoints[1])
          /\ \A k \in 1..(Len(cps) - 1) :
               (IsBase(cps[k]) /\ ~IsBase(cps[k + 1])) =>
                 LET j == Len(Bases(SubSeq(cps, 1, k)))
                 IN  /\ j <= Len(result)
                     /\ result[j].codePoints = <<cps[k].code, cps[k + 1].code>>
                     /\ result[j].id = lookupVS(cps[k].code, cps[k + 1].code)

\* C6 witness: U+0041 followed by U+E0100 (a surrogate-pair selector) gave
\* one unit with both codepoints.
C6_Witness ==
    /\ GlyphsDone
    /\ string = <<65, 56128, 56576>>
    /\ Len(result) = 1
    /\ result[1].codePoints = <<65, 917760>>

\* C7: for a string without variation selectors glyphsForString emits exactly
\* one single-codepoint unit per decoded codepoint, in text order, the last
\* one included.
C7_OneUnitPerCodePoint ==
    GlyphsDone =>
      LET cps == CodePoints(string)
      IN  (\A k \in 1..Len(cps) : IsBase(cps[k])) =>
            /\ Len(result) = Len(cps)
            /\ \A k \in 1..Len(cps) :
                 /\ result[k].codePoints = <<cps[k].code>>
                 /\ result[k].id = lookup(cps[k].code)

\* C7 witness: two consecutive ordinary codepoints, the second a surrogate
\* pair at the end of the string, gave two units.
C7_Witness ==
    /\ GlyphsDone
    /\ string = <<65, 55357, 56832>>
    /\ Len(result) = 2
    /\ result[2].codePoints = <<128512>>

(***************************************************************************)
(* Properties of layout and getAvailableFeatures, checked under Spec.      *)
(***************************************************************************)
\* layout has returned and glyphRun is the run it returned
Returned == pc = "idle" /\ lastOp = "layout"

InLog(e) == \E i \in 1..Len(log) : log[i] = e

Count(seq, e) == Cardinality({i \in 1..Len(seq) : seq[i] = e})

\* the three sequences of a run exist and have one length
LengthsAgree(run) ==
    /\ {"positions", "stringIndices"} \subseteq run.assigned
    /\ Len(run.glyphs) = Len(run.positions)
    /\ Len(run.positions) = Len(run.stringIndices)

\* C1 as stated: for every non-empty input string the returned run has
\* len(glyphs) = len(positions) = len(stringIndices).
C1_NonEmptyStringLengthsAgree ==
    (Returned /\ string # <<>>) => LengthsAgree(glyphRun)

\* C1 amended: for every input string that yields at least one glyph unit,
\* and whatever the backend inserts, deletes or reorders in the substitute
\* phase, the returned run has len(glyphs) = len(positions) =
\* len(stringIndices).
C1_LengthsAgree ==
    (Returned /\ glyphsForString(string) # <<>>) => LengthsAgree(glyphRun)

\* C1 witness: the backend inserted a glyph and moved it to the front, and
\* the returned run has three sequences of length 2.
C1_Witness ==
    /\ Returned
    /\ InLog("engine.substitute")
    /\ Len(glyphsForString(string)) = 1
    /\ Len(glyphRun.glyphs) = 2
    /\ glyphRun.glyphs[1].id = 20
    /\ LengthsAgree(glyphRun)

\* C2: layout of the empty string returns at once with empty glyphs and
\* empty positions, and invokes no backend phase, no fallback mark
\* positioning and no legacy kerning.
C2_EmptyStringShortCircuits ==
    (lastOp = "layout" /\ string = <<>>) =>
      /\ pc = "idle"
      /\ glyphRun.glyphs = <<>>
      /\ "positions" \in glyphRun.assigned
      /\ glyphRun.positions = <<>>
      /\ \A e \in {"engine.setup", "engine.substitute", "engine.position",
                   "engine.cleanup", "unicode.positionGlyphs", "kern.process"} :
           ~InLog(e)

\* C2 witness: the empty string was laid out by an engine whose backend has
\* every phase and whose font has a kern table.
C2_Witness ==
    /\ Returned
    /\ string = <<>>
    /\ HasSetup(engine) /\ HasSubstitute(engine)
    /\ HasPosition(engine) /\ HasCleanup(engine)
    /\ font.kern
    /\ glyphRun.positions = <<>>

\* C3 as stated: with a kern table, no positioning rule table and kerning not
\* disabled by the caller, in every layout call the kern processor runs
\* exactly once and features.kern is true at return.
C3_EveryCallKernsOnce ==
    (Returned /\ font.kern /\ ~font.GPOS /\ features # "false") =>
      (Count(log, "kern.process") = 1 /\ glyphRun.features.kern = "true")

\* C3 amended: with a kern table, no positioning rule table and kerning not
\* disabled by the caller, in every layout call whose string yields at least
\* one glyph unit the kern processor runs exactly once and features.kern is
\* true at return.
C3_KernsOnce ==
    (Returned /\ font.kern /\ ~font.GPOS /\ features # "false"
       /\ glyphsForString(string) # <<>>) =>
      (Count(log, "kern.process") = 1 /\ glyphRun.features.kern = "true")

\* C3 witness: a backend without a positioning table positioned the run
\* without reporting kern, the caller gave no kern toggle, and the kern
\* processor ran.
C3_Witness ==
    /\ Returned
    /\ font.kern /\ ~font.GPOS /\ features = "undefined"
    /\ InLog("engine.position") /\ positioned.truthy
    /\ Count(log, "kern.process") = 1
    /\ glyphRun.features.kern = "true"

\* C4: when the backend's position operation reports kern among the tags it
\* applied, the kern processor is not invoked in that call.
C4_BackendKernSuppressesLegacy ==
    (lastOp = "layout" /\ positioned.truthy /\ positioned.kern) =>
      ~InLog("kern.process")

\* C4 witness: the backend reported kern for a font that has a kern table,
\* the caller did not disable kerning, and the call returned.
C4_Witness ==
    /\ Returned
    /\ positioned.truthy /\ positioned.kern
    /\ font.kern /\ features # "false"
    /\ InLog("engine.position")

PhaseRank(e) ==
    CASE e = "engine.setup"   -> 1
      [] e = "substitute"     -> 2
      [] e = "position"       -> 3
      [] e = "hide"           -> 4
      [] e = "engine.cleanup" -> 5
      [] e = "map"            -> 6
      [] OTHER                -> 0

IsPhase(e) == PhaseRank(e) > 0

Positioned == lastOp = "layout" /\ InLog("position")

C10_FeaturesDistinct ==
    lastOp = "getAvailableFeatures" =>
      /\ \A i, j \in 1..Len(result) : result[i] = result[j] => i = j
      /\ font.kern => Count(result, "kern") = 1
      /\ engine.kind # "none" => SubSeq(result, 1, Len(reported)) = reported
      /\ Len(result) > Len(reported) =>
           result = Append(reported, "kern")

(***************************************************************************)
(* Backend selection.                                                      *)
(***************************************************************************)
\* the backend the font's tables call for: the state-machine backend if the
\* font has a morx table, else the rule-table backend if it has GSUB or GPOS
ExpectedBackend(f) ==
    IF f.morx THEN "AAT" ELSE IF f.GSUB \/ f.GPOS THEN "OT" ELSE "none"

\* C11: the backend is the one the precedence morx, then GSUB or GPOS, then
\* none selects for the font, and no step of layout, getAvailableFeatures or
\* stringsForGlyph changes the engine's backend.
C11_BackendFixed ==
    /\ [](engine.kind = ExpectedBackend(font))
    /\ [][engine' = engine /\ font' = font]_vars

\* C11 witness: a font with both morx and rule tables got the state-machine
\* backend, and still has it after a layout call (which built the fallback
\* positioner) and a later stringsForGlyph call.
C11_Witness ==
    /\ font.morx /\ font.GSUB /\ font.GPOS
    /\ engine.kind = "AAT"
    /\ unicodeLayoutEngine # "null"
    /\ lastOp = "stringsForGlyph"

(***************************************************************************)
(* Default-ignorable hiding.                                               *)
(***************************************************************************)
\* C12: the hiding step changes, for each unit whose base codepoint is
\* default-ignorable, only the glyph id (to the glyph of U+0020) and the x and
\* y advance (to 0); offsets, codepoints and stringIndex of that unit, every
\* other unit, and the length and order of both sequences stay as they were.
C12_HidingFrame ==
    [][pc = "hide" =>
        LET g == glyphRun.glyphs
            p == glyphRun.positions
            g1 == glyphRun'.glyphs
            p1 == glyphRun'.positions
        IN  /\ Len(g1) = Len(g)
            /\ Len(p1) = Len(p)
            /\ \A i \in 1..Len(g) :
                 /\ g1[i].codePoints = g[i].codePoints
                 /\ g1[i].stringIndex = g[i].stringIndex
                 /\ p1[i].xOffset = p[i].xOffset
                 /\ p1[i].yOffset = p[i].yOffset
                 /\ IF isDefaultIgnorable(g[i].codePoints[1])
                    THEN /\ g1[i].id = lookup(32)
                         /\ p1[i].xAdvance = 0
                         /\ p1[i].yAdvance = 0
                    ELSE /\ g1[i] = g[i]
                         /\ p1[i] = p[i]
    ]_vars

\* C12 witness: hiding has just run on two units with the default-ignorable
\* base U+00AD whose positions the backend had given an x offset; they now
\* show the space glyph with advance 0 and the offset kept.
C12_Witness ==
    /\ pc = "cleanup"
    /\ Len(glyphRun.glyphs) = 2
    /\ \A i \in 1..2 :
         /\ glyphRun.glyphs[i].codePoints = <<173>>
         /\ glyphRun.glyphs[i].id = lookup(32)
         /\ glyphRun.positions[i].xAdvance = 0
         /\ glyphRun.positions[i].xOffset = 1

(***************************************************************************)
(* The default-ignorable set, checked under SpecIgnorable.                 *)
(***************************************************************************)
\* the set the predicate is documented to accept
DefaultIgnorables ==
    {173, 847, 1564} \cup (6068..6069) \cup (6155..6158) \cup (8203..8207)
        \cup (8234..8238) \cup (8288..8303) \cup (65024..65039) \cup {65279}
        \cup (65520..65528) \cup (113824..113827) \cup (119155..119162)
        \cup (917504..921599)

\* U+115F, U+1160, U+3164 and U+FFA0, deliberately left out
ExcludedFillers == {4447, 4448, 12644, 65440}

IgnorableDone == lastOp = "isDefaultIgnorable"

\* C13: isDefaultIgnorable(ch) is true exactly for the codepoints of the
\* documented set and false for every other codepoint of 0..0x10FFFF, the four
\* filler codepoints and the neighbours of every range boundary included.
C13_IgnorableSetExact ==
    IgnorableDone =>
        /\ result = DefaultIgnorables \cap BlockCodePoints(block)
        /\ result \cap ExcludedFillers = {}

\* C13 witness: the predicate has been applied to U+F000..U+FFFF, where it
\* accepts U+FE00..U+FE0F, U+FEFF and U+FFF0..U+FFF8 and rejects U+FFA0 and
\* the neighbours U+FDFF, U+FE10, U+FEFE, U+FFEF and U+FFF9.
C13_Witness ==
    /\ IgnorableDone
    /\ block = 15
    /\ (65024..65039) \cup {65279} \cup (65520..65528) \subseteq result
    /\ result \cap {65440, 65023, 65040, 65278, 65519, 65529} = {}

(***************************************************************************)
(* Surrogate decoding, checked under SpecGlyphs.                           *)
(***************************************************************************)
\* the scalar values of the code units s[k], s[k+1], ... when a high
\* surrogate immediately followed by a low surrogate counts as one scalar and
\* every other code unit counts as itself
RECURSIVE ScalarsFrom(_, _)
ScalarsFrom(s, k) ==
    IF k > Len(s)
    THEN <<>>
    ELSE IF /\ s[k] \in 55296..56319
            /\ k < Len(s)
            /\ s[k + 1] \in 56320..57343
         THEN <<((s[k] % 1024) * 1024) + (s[k + 1] % 1024) + 65536>>
                  \o ScalarsFrom(s, k + 2)
         ELSE <<s[k]>> \o ScalarsFrom(s, k + 1)

\* the scalars that reach a unit: all but the variation selectors that do not
\* follow a base
RECURSIVE Attached(_, _)
Attached(scalars, j) ==
    IF j > Len(scalars)
    THEN <<>>
    ELSE IF /\ IsVariationSelector(scalars[j])
            /\ (j = 1 \/ IsVariationSelector(scalars[j - 1]))
         THEN Attached(scalars, j + 1)
         ELSE <<scalars[j]>> \o Attached(scalars, j + 1)

\* the codepoint lists of the units, concatenated in order
RECURSIVE Flatten(_)
Flatten(glyphs) ==
    IF glyphs = <<>>
    THEN <<>>
    ELSE Head(glyphs).codePoints \o Flatten(Tail(glyphs))

\* C14: glyphsForString decodes a high surrogate immediately followed by a low
\* surrogate into the one scalar ((hi & 0x3FF) << 10) + (lo & 0x3FF) + 0x10000
\* and consumes both code units; any other surrogate is passed on as its own
\* codepoint and consumes one code unit; the scan ends with a result for every
\* input string.
C14_SurrogateDecoding ==
    GlyphsDone =>
        /\ Flatten(result) = Attached(ScalarsFrom(string, 1), 1)
        /\ Len(result) <= Len(string)

\* C14 witness: a high surrogate followed by a surrogate pair; the first code
\* unit is passed on as the codepoint U+D83D, the pair is decoded to U+1F600.
C14_Witness ==
    /\ GlyphsDone
    /\ string = <<55357, 55357, 56832>>
    /\ Len(result) = 2
    /\ result[1].codePoints = <<55357>>
    /\ result[2].codePoints = <<128512>>

(***************************************************************************)
(* stringsForGlyph.                                                        *)
(***************************************************************************)
StringsDone == lastOp = "stringsForGlyph"

Elements(seq) == {seq[i] : i \in 1..Len(seq)}

\* the textual forms of the codepoints the codepoint map resolves to gid
CmapStrings(gid) == {fromCodePoint(c) : c \in {d \in Elements(CmapCodePoints) : lookup(d) = gid}}

\* C15: stringsForGlyph(gid) returns a sequence without a repeated element
\* whose elements are exactly the textual forms of the codepoints the
\* codepoint map reports for gid together with, when the backend offers
\* stringsForGlyph, the strings the backend reports for gid.
C15_DeduplicatedUnion ==
    StringsDone =>
        /\ \A i, j \in 1..Len(result) : result[i] = result[j] => i = j
        /\ Elements(result) =
               CmapStrings(reported.gid) \cup
               (IF engine.kind # "none" /\ engine.stringsForGlyph
                THEN Elements(reported.strings)
                ELSE {})

\* C15 witness: glyph 4 is mapped from U+1F600, and the backend reports the
\* same string and the ligature origin "fi"; the common string appears once.
C15_Witness ==
    /\ StringsDone
    /\ reported.gid = 4
    /\ reported.strings = <<(<<55357, 56832>>), <<102, 105>>>>
    /\ result = <<(<<55357, 56832>>), <<102, 105>>>>

(***************************************************************************)
(* The kerning gate.                                                       *)
(***************************************************************************)
\* C16: in a layout call that reaches the position phase the kern processor
\* runs exactly when the backend's position result is absent or lacks kern,
\* the caller's kern toggle is not false and the font has a kern table,
\* whether or not the fallback mark positioner ran and whatever the backend's
\* fallbackPosition flag; when the caller disabled kern the processor does
\* not run and the run's kern flag stays false.
C16_KernGateIndependent ==
    Positioned =>
      /\ InLog("kern.process") <=>
           /\ ~positioned.truthy \/ ~positioned.kern
           /\ features # "false"
           /\ font.kern
      /\ features = "false" =>
           /\ ~InLog("kern.process")
           /\ glyphRun.features.kern = "false"

\* C16 witness: a backend that asks for fallback positioning positioned the
\* run itself without reporting kern; the fallback mark positioner did not
\* run and the kern processor did.
C16_Witness ==
    /\ Returned
    /\ Len(glyphRun.glyphs) > 0
    /\ engine.fallbackPosition
    /\ positioned.truthy /\ ~positioned.kern
    /\ ~InLog("unicode.positionGlyphs")
    /\ InLog("kern.process")
    /\ glyphRun.features.kern = "true"

(***************************************************************************)
(* The lazily constructed components.                                      *)
(***************************************************************************)
\* C17: across the layout calls on one engine the fallback mark positioner
\* and the kern processor are each constructed at most once, in the first
\* position phase that uses the component, and a cached instance is reused by
\* every later use and is never reset or replaced.
C17_ConstructedOnce ==
    /\ [](/\ constructed.unicodeLayoutEngine <= 1
          /\ constructed.kernProcessor <= 1
          /\ unicodeLayoutEngine = "null" <=> constructed.unicodeLayoutEngine = 0
          /\ kernProcessor = "null" <=> constructed.kernProcessor = 0)
    /\ [][/\ unicodeLayoutEngine # "null" => unicodeLayoutEngine' = unicodeLayoutEngine
          /\ kernProcessor # "null" => kernProcessor' = kernProcessor
          /\ pc # "position" =>
               /\ unicodeLayoutEngine' = unicodeLayoutEngine
               /\ kernProcessor' = kernProcessor
               /\ constructed' = constructed
          /\ pc = "position" =>
               LET ran(e) == \E i \in 1..Len(log') : log'[i] = e
               IN  /\ constructed'.unicodeLayoutEngine =
                        IF unicodeLayoutEngine = "null" /\ ran("unicode.positionGlyphs")
                        THEN 1 ELSE constructed.unicodeLayoutEngine
                   /\ constructed'.kernProcessor =
                        IF kernProcessor = "null" /\ ran("kern.process")
                        THEN 1 ELSE constructed.kernProcessor
                   /\ ran("unicode.positionGlyphs") => unicodeLayoutEngine' # "null"
                   /\ ran("kern.process") => kernProcessor' # "null"
      ]_vars

\* C17 witness: a position phase has just used both components without
\* constructing either, each having been constructed once by an earlier call.
C17_Witness ==
    /\ pc = "hide"
    /\ InLog("unicode.positionGlyphs") /\ ~InLog("new UnicodeLayoutEngine")
    /\ InLog("kern.process") /\ ~InLog("new KernProcessor")
    /\ constructed = [unicodeLayoutEngine |-> 1, kernProcessor |-> 1]
    /\ unicodeLayoutEngine # "null" /\ kernProcessor # "null"

(***************************************************************************)
(* The shape of a glyph unit, checked under SpecGlyphs.                    *)
(***************************************************************************)
\* C18: every unit glyphsForString emits has one or two codepoints; a second
\* codepoint lies in U+FE00..U+FE0F or U+E0100..U+E01EF; the first codepoint
\* is never a variation selector.
C18_UnitShape ==
    GlyphsDone =>
        \A j \in 1..Len(result) :
            LET cps == result[j].codePoints
            IN  /\ Len(cps) \in {1, 2}
                /\ Len(cps) = 2 =>
                     cps[2] \in (65024..65039) \cup (917760..917999)
                /\ cps[1] \notin (65024..65039) \cup (917760..917999)

\* C18 witness: "A" followed by U+FE0F twice; one unit of two codepoints is
\* emitted and the second selector heads no unit.
C18_Witness ==
    /\ GlyphsDone
    /\ string = <<65, 65039, 65039>>
    /\ Len(result) = 1
    /\ result[1].codePoints = <<65, 65039>>

(***************************************************************************)
(* Hiding runs after positioning.                                          *)
(***************************************************************************)
\* C19: once hiding has run, and in the run layout returns, every glyph whose
\* unit has a default-ignorable base codepoint has xAdvance = 0 and
\* yAdvance = 0, whatever the backend's position operation, the fallback mark
\* positioner and the kern processor wrote to its position.
C19_IgnorablesKeepZeroAdvance ==
    /\ (lastOp = "layout" /\ pc \in {"cleanup", "map"}) =>
         \A i \in 1..Len(glyphRun.glyphs) :
             isDefaultIgnorable(glyphRun.glyphs[i].codePoints[1]) =>
                 /\ glyphRun.positions[i].xAdvance = 0
                 /\ glyphRun.positions[i].yAdvance = 0
    /\ (Returned /\ InLog("map")) =>
         /\ Len(glyphRun.positions) = Len(glyphRun.stringIndices)
         /\ \A i \in 1..Len(glyphRun.stringIndices) :
                isDefaultIgnorable(charCodeAt(string, glyphRun.stringIndices[i])) =>
                    /\ glyphRun.positions[i].xAdvance = 0
                    /\ glyphRun.positions[i].yAdvance = 0

\* C19 witness: a returned run of two glyphs for U+00AD on which the
\* backend's position operation, the fallback mark positioner and the kern
\* processor all ran; the advances are 0 and the offset the fallback wrote
\* is kept.
C19_Witness ==
    /\ Returned
    /\ string = <<173>>
    /\ InLog("engine.position")
    /\ InLog("unicode.positionGlyphs")
    /\ InLog("kern.process")
    /\ Len(glyphRun.positions) = 2
    /\ \A i \in 1..2 :
         /\ glyphRun.positions[i].xAdvance = 0
         /\ glyphRun.positions[i].yAdvance = 0
         /\ glyphRun.positions[i].yOffset = 1

(***************************************************************************)
(* One unit per base codepoint, checked under SpecGlyphs.                  *)
(***************************************************************************)
\* the indices, in order, of the scalars that are not variation selectors
BaseIndices(scalars) ==
    SelectSeq([j \in 1..Len(scalars) |-> j],
              LAMBDA j : ~IsVariationSelector(scalars[j]))

\* C20: glyphsForString emits exactly one unit per decoded codepoint that is
\* not a variation selector, in text order; the unit holds that codepoint and
\* the selector that immediately follows it, if any, so a selector at the
\* start of the string or after another selector is in no unit, and a string
\* of selectors only yields the empty sequence.
C20_OneUnitPerBase ==
    GlyphsDone =>
        LET scalars == ScalarsFrom(string, 1)
            bases == BaseIndices(scalars)
        IN  /\ Len(result) = Len(bases)
            /\ \A k \in 1..Len(bases) :
                 LET j == bases[k]
                 IN  result[k].codePoints =
                       IF j < Len(scalars) /\ IsVariationSelector(scalars[j + 1])
                       THEN <<scalars[j], scalars[j + 1]>>
                       ELSE <<scalars[j]>>
            /\ (\A j \in 1..Len(scalars) : IsVariationSelector(scalars[j])) =>
                 result = <<>>

\* C20 witness: U+FE0F at the start, U+FE0F again, then "A"; neither selector
\* is in a unit and the one unit emitted is "A" alone.
C20_Witness ==
    /\ GlyphsDone
    /\ string = <<65039, 65039, 65>>
    /\ Len(result) = 1
    /\ result[1].codePoints = <<65>>

====
